---- MODULE Spec2Model ----
(***************************************************************************)
(* A model of main.py: the recursive manufacturing-cost resolver            *)
(* (safe_cost_to_build / _cost_to_build), the market caches it reads, and  *)
(* the ranking loop of analyze_profits that drives it.                     *)
(*                                                                         *)
(* Numbers.  Python floats are modelled by exact integers:                 *)
(*   - money is in ISK; the prices offered by the market are multiples of  *)
(*     BLUEPRINT_RUNS, so bp_price / BLUEPRINT_RUNS is exact;              *)
(*   - the two "hours" fields are kept in seconds (1/3600 hour); the       *)
(*     final "/ 3600" of calculate_mining_time is therefore the change of  *)
(*     unit and ISK per hour is profit * 3600 / seconds.                   *)
(* A cost vector is the 5-tuple the code returns:                          *)
(*   <<cost, mining_hours, pi_hours, blueprint_cost, full_bp_price>>.      *)
(***************************************************************************)
EXTENDS Integers, Sequences, FiniteSets, TLC

VARIABLES
    db,            \* the SQLite catalog (read-only after start-up)
    cfg,           \* the configuration constants of lines 15-25
    market,        \* what the remote price service answers for each type id
    priceCache,    \* _price_cache
    volumeCache,   \* _volume_cache
    visited,       \* the module-level set `visited`
    lru,           \* the lru_cache of _cost_to_build
    stack,         \* active _cost_to_build frames, innermost last
    pc,            \* "idle" | "running" | "done" | "raised"
    err,           \* the function whose exception ended the run, or "none"
    callee,        \* argument of the current / last top-level call
    result,        \* value returned by the last top-level call
    trace,         \* completed top-level calls, in order: <<id, value>>
    accum,         \* per item, the totals of the materials loop (line 295)
    product_ids,   \* analyze_profits: the candidate list
    idx,           \* analyze_profits: loop index i (1-based)
    volume,        \* analyze_profits: volume of the current candidate
    results,       \* analyze_profits: the rows collected so far / the frame
    ppc            \* analyze_profits: "off" | "loop" | "resolving" | "finished" | "aborted"

vars == <<db, cfg, market, priceCache, volumeCache, visited, lru, stack, pc, err,
          callee, result, trace, accum, product_ids, idx, volume, results, ppc>>

resolverVars == <<priceCache, visited, lru, stack, pc, err, callee, result, trace, accum>>
pipelineVars == <<volumeCache, product_ids, idx, volume, results, ppc>>
frozenVars   == <<db, cfg, market>>

-----------------------------------------------------------------------------
(* Bounds of the model *)

MaxQty   == 2      \* recipe quantities range over 1..MaxQty
MaxCalls == 3      \* top-level resolver calls made by one run of the API harness

(* Program constants *)

UNITS_TO_COMPARE       == 10
MIN_DAILY_VOLUME       == 5
STRIP_MINER_CYCLE_TIME == 180
ReprocessingPercent    == 72       \* REPROCESSING_EFFICIENCY = 0.72
SecondsPerHour         == 3600
PiPercentOfHour        == 1        \* qty * 0.01 hours per PI unit
VolumeSentinel         == 999999

-----------------------------------------------------------------------------
(* The catalog *)

Items  == 1 .. 3
NoBlueprint == 0                     \* get_blueprint_type_id returned None
NoOre       == -1                    \* get_ore_for_mineral found no row
BlueprintIds == {11, 12}
PriceIds == Items \cup BlueprintIds
Prices  == {0, 100}
Volumes == {0, 4, 5, VolumeSentinel}
Qtys == 1 .. MaxQty

ZeroVector == <<0, 0, 0, 0, 0>>

\* A catalog: which products have a manufacturing blueprint, their materials,
\* the group of each type, the best reprocessing yield of the ore of a mineral,
\* the blueprint's own type id and the product quantity per run.
Catalog(hasBp, mats, group, ore, bp, outq) ==
    [hasBp |-> hasBp, mats |-> mats, group |-> group, ore |-> ore, bp |-> bp, outq |-> outq]

\* 1 and 2 need each other; 2 also needs the market-only item 3.
CatCycle(q) ==
    Catalog(<<TRUE, TRUE, FALSE>>,
            << <<<<2, q>>>>, <<<<1, 1>>, <<3, q>>>>, <<>> >>,
            <<"other", "other", "other">>,
            <<NoOre, NoOre, NoOre>>,
            <<11, 12, NoBlueprint>>,
            <<1, 1, 1>>)

\* as CatCycle, but 1 also needs the mineral 3 whose ore row has quantity 0.
CatZeroYield(q) ==
    Catalog(<<TRUE, TRUE, FALSE>>,
            << <<<<2, 1>>, <<3, q>>>>, <<<<1, 1>>>>, <<>> >>,
            <<"other", "other", "mineral">>,
            <<NoOre, NoOre, 0>>,
            <<11, 12, NoBlueprint>>,
            <<1, 1, 1>>)

\* X = 1 needs q of the mineral Y = 2 (ore yield 25: 10 s per unit) and one Z = 3.
CatGather(q) ==
    Catalog(<<TRUE, FALSE, FALSE>>,
            << <<<<2, q>>, <<3, 1>>>>, <<>>, <<>> >>,
            <<"other", "mineral", "other">>,
            <<NoOre, 25, NoOre>>,
            <<11, NoBlueprint, NoBlueprint>>,
            <<1, 1, 1>>)

\* 1 needs 2 and 3, 2 needs 3 (a shared sub-build); 3 is a PI commodity; one run
\* of 1 yields q + 1 units; 2 is a product of a non-manufacturing activity of a
\* blueprint (has_blueprint is true, get_blueprint_type_id finds nothing).
CatShared(q) ==
    Catalog(<<TRUE, TRUE, FALSE>>,
            << <<<<2, q>>, <<3, 1>>>>, <<<<3, 2>>>>, <<>> >>,
            <<"other", "other", "pi">>,
            <<NoOre, NoOre, NoOre>>,
            <<11, NoBlueprint, NoBlueprint>>,
            <<q + 1, 1, 1>>)

\* 1 needs itself; 2 is a mineral no ore reprocesses into; 3 needs 2 and 1.
CatSelf(q) ==
    Catalog(<<TRUE, FALSE, TRUE>>,
            << <<<<1, q>>>>, <<>>, <<<<2, q>>, <<1, 1>>>> >>,
            <<"other", "mineral", "other">>,
            <<NoOre, NoOre, NoOre>>,
            <<11, NoBlueprint, 12>>,
            <<1, 1, q + 1>>)

Catalogs ==
    UNION { {CatCycle(q), CatZeroYield(q), CatGather(q), CatShared(q), CatSelf(q)} : q \in Qtys }

\* ENABLE_SELF_SUFFICIENT, INCLUDE_BLUEPRINT_COST, BLUEPRINT_RUNS
Config(ss, inc, runs) ==
    [ENABLE_SELF_SUFFICIENT |-> ss, INCLUDE_BLUEPRINT_COST |-> inc, BLUEPRINT_RUNS |-> runs]

Configs ==
    { Config(ss, b[1], b[2]) : ss \in BOOLEAN, b \in {<<TRUE, 10>>, <<FALSE, 10>>, <<TRUE, 0>>, <<TRUE, -1>>} }

-----------------------------------------------------------------------------
(* Catalog queries *)

has_blueprint(type_id) == db.hasBp[type_id]

get_materials(type_id) == db.mats[type_id]

is_mineral(type_id) == db.group[type_id] = "mineral"

is_pi_material(type_id) == db.group[type_id] = "pi"

get_blueprint_type_id(type_id) == db.bp[type_id]

\* industryActivityProducts.quantity of the product's manufacturing row
OutputQuantity(type_id) == db.outq[type_id]

-----------------------------------------------------------------------------
(* Arithmetic that can raise *)

\* a / b of Python: <<"ok", quotient>> or the exception's name
Divide(a, b) == IF b = 0 THEN <<"ZeroDivisionError", 0>> ELSE <<"ok", a \div b>>

\* calculate_mining_time, in seconds:
\*   quantity / (mineral_per_ore * 0.72) * 180
calculate_mining_time(mineral_type_id, quantity_needed) ==
    IF db.ore[mineral_type_id] = NoOre
    THEN <<"ok", 0>>
    ELSE Divide(quantity_needed * 100 * STRIP_MINER_CYCLE_TIME,
                db.ore[mineral_type_id] * ReprocessingPercent)

\* qty * 0.01 hours, in seconds
pi_time(qty) == (qty * PiPercentOfHour * SecondsPerHour) \div 100

-----------------------------------------------------------------------------
(* Market price cache *)

get_price(cache, type_id) ==
    IF type_id \in DOMAIN cache THEN cache[type_id] ELSE market[type_id]

PriceCacheAfter(cache, type_id) ==
    IF type_id \in DOMAIN cache THEN cache ELSE cache @@ (type_id :> market[type_id])

-----------------------------------------------------------------------------
(* Blueprint cost *)

get_blueprint_cost_NoToggle(cache, product_type_id) ==
    IF get_blueprint_type_id(product_type_id) = NoBlueprint
    THEN <<0, 0>>
    ELSE LET bp_price == get_price(cache, get_blueprint_type_id(product_type_id))
         IN  << IF cfg.BLUEPRINT_RUNS > 0
                THEN bp_price \div cfg.BLUEPRINT_RUNS ELSE 0,
                bp_price >>

\* <<amortized_cost, bp_price>>
get_blueprint_cost(cache, product_type_id) ==
    IF get_blueprint_type_id(product_type_id) = NoBlueprint
    THEN <<0, 0>>
    ELSE LET bp_price == get_price(cache, get_blueprint_type_id(product_type_id))
         IN  << IF cfg.BLUEPRINT_RUNS > 0 /\ cfg.INCLUDE_BLUEPRINT_COST
                THEN bp_price \div cfg.BLUEPRINT_RUNS ELSE 0,
                bp_price >>

BlueprintCacheAfter(cache, product_type_id) ==
    IF get_blueprint_type_id(product_type_id) = NoBlueprint
    THEN cache
    ELSE PriceCacheAfter(cache, get_blueprint_type_id(product_type_id))

-----------------------------------------------------------------------------
(* The resolver *)

\* a material handled at the usage site instead of being resolved (lines 276-287)
GatheredHere(mat_id) ==
    cfg.ENABLE_SELF_SUFFICIENT /\ (is_mineral(mat_id) \/ is_pi_material(mat_id))

\* lines 257-265, the value of _cost_to_build for an item without a blueprint
BaseValue_IgnoreMode(cache, type_id) ==
    IF is_mineral(type_id) \/ is_pi_material(type_id)
    THEN ZeroVector
    ELSE <<get_price(cache, type_id), 0, 0, 0, 0>>

BaseValue(cache, type_id) ==
    IF cfg.ENABLE_SELF_SUFFICIENT /\ (is_mineral(type_id) \/ is_pi_material(type_id))
    THEN ZeroVector
    ELSE <<get_price(cache, type_id), 0, 0, 0, 0>>

BaseCacheAfter(cache, type_id) ==
    IF cfg.ENABLE_SELF_SUFFICIENT /\ (is_mineral(type_id) \/ is_pi_material(type_id))
    THEN cache
    ELSE PriceCacheAfter(cache, type_id)

\* line 280
AddMining_WrongField(tot, t) == [tot EXCEPT ![3] = @ + t]

AddMining(tot, t) == [tot EXCEPT ![2] = @ + t]

\* line 286
AddPi(tot, t) == [tot EXCEPT ![3] = @ + t]

\* lines 290-294
Accumulate(tot, sub, qty) == [k \in 1 .. 5 |-> tot[k] + sub[k] * qty]

\* lines 297-301
WithBlueprint(tot, bpc) == <<tot[1], tot[2], tot[3], tot[4] + bpc[1], tot[5] + bpc[2]>>

\* line 247
VisitedRemove_Forgotten(v, type_id) == v

VisitedRemove(v, type_id) == v \ {type_id}

Frame(type_id) == [id |-> type_id, idx |-> 1, tot |-> ZeroVector]

\* What safe_cost_to_build(type_id) does before any material is looked at:
\* it returns at once (the cycle fallback, an lru_cache hit, an item without a
\* blueprint) or a new _cost_to_build frame starts.
SafeEntry(type_id) ==
    IF type_id \in visited
    THEN [kind |-> "return", value |-> <<get_price(priceCache, type_id), 0, 0, 0, 0>>,
          prices |-> PriceCacheAfter(priceCache, type_id), lru |-> lru, visited |-> visited]
    ELSE IF type_id \in DOMAIN lru
    THEN [kind |-> "return", value |-> lru[type_id],
          prices |-> priceCache, lru |-> lru,
          visited |-> VisitedRemove(visited \cup {type_id}, type_id)]
    ELSE IF ~has_blueprint(type_id)
    THEN [kind |-> "return", value |-> BaseValue(priceCache, type_id),
          prices |-> BaseCacheAfter(priceCache, type_id),
          lru |-> lru @@ (type_id :> BaseValue(priceCache, type_id)),
          visited |-> VisitedRemove(visited \cup {type_id}, type_id)]
    ELSE [kind |-> "push", value |-> ZeroVector,
          prices |-> priceCache, lru |-> lru, visited |-> visited \cup {type_id}]

Top == stack[Len(stack)]
TopMaterial == get_materials(Top.id)[Top.idx]
InLoop == pc = "running" /\ stack # <<>> /\ Top.idx <= Len(get_materials(Top.id))
ReplaceTop(f) == [stack EXCEPT ![Len(stack)] = f]

\* A top-level call made through the resolver's interface.
TopCall(type_id) ==
    /\ ppc = "off"
    /\ pc \in {"idle", "done"}
    /\ Len(trace) < MaxCalls
    /\ LET e == SafeEntry(type_id) IN
        /\ callee' = type_id
        /\ priceCache' = e.prices
        /\ lru' = e.lru
        /\ visited' = e.visited
        /\ IF e.kind = "return"
           THEN /\ pc' = "done"
                /\ result' = e.value
                /\ trace' = Append(trace, <<type_id, e.value>>)
                /\ stack' = stack
           ELSE /\ pc' = "running"
                /\ stack' = <<Frame(type_id)>>
                /\ UNCHANGED <<result, trace>>
    /\ UNCHANGED <<err, accum, frozenVars, pipelineVars>>

\* lines 276-287: a mineral or PI material in self-sufficient mode
StepGather ==
    /\ InLoop
    /\ GatheredHere(TopMaterial[1])
    /\ LET mat_id == TopMaterial[1]
           qty    == TopMaterial[2]
           t      == calculate_mining_time(mat_id, qty)
       IN  /\ is_mineral(mat_id) => t[1] = "ok"
           /\ stack' = ReplaceTop([Top EXCEPT
                  !.idx = @ + 1,
                  !.tot = IF is_mineral(mat_id) THEN AddMining(@, t[2])
                          ELSE AddPi(@, pi_time(qty))])
    /\ UNCHANGED <<priceCache, visited, lru, pc, err, callee, result, trace, accum,
                   frozenVars, pipelineVars>>

\* line 124 raises: the exception leaves every active frame, nothing is cached
\* and no visited.remove runs; analyze_profits does not catch it either.
StepRaise ==
    /\ InLoop
    /\ GatheredHere(TopMaterial[1])
    /\ is_mineral(TopMaterial[1])
    /\ calculate_mining_time(TopMaterial[1], TopMaterial[2])[1] # "ok"
    /\ stack' = <<>>
    /\ pc' = "raised"
    /\ err' = "calculate_mining_time"
    /\ ppc' = IF ppc = "resolving" THEN "aborted" ELSE ppc
    /\ UNCHANGED <<priceCache, visited, lru, callee, result, trace, accum, frozenVars,
                   volumeCache, product_ids, idx, volume, results>>

\* lines 289-294: the material is resolved through safe_cost_to_build
StepCall ==
    /\ InLoop
    /\ ~GatheredHere(TopMaterial[1])
    /\ LET e == SafeEntry(TopMaterial[1]) IN
        /\ priceCache' = e.prices
        /\ lru' = e.lru
        /\ visited' = e.visited
        /\ IF e.kind = "return"
           THEN stack' = ReplaceTop([Top EXCEPT
                    !.idx = @ + 1,
                    !.tot = Accumulate(@, e.value, TopMaterial[2])])
           ELSE stack' = Append(stack, Frame(TopMaterial[1]))
    /\ UNCHANGED <<pc, err, callee, result, trace, accum, frozenVars, pipelineVars>>

\* lines 296-301 and 247-248: the loop is over; the blueprint cost is added, the
\* value is cached, the item leaves `visited` and the value goes to the caller.
Return ==
    /\ pc = "running" /\ stack # <<>>
    /\ Top.idx > Len(get_materials(Top.id))
    /\ LET value  == WithBlueprint(Top.tot, get_blueprint_cost(priceCache, Top.id))
           rest   == SubSeq(stack, 1, Len(stack) - 1)
       IN  /\ priceCache' = BlueprintCacheAfter(priceCache, Top.id)
           /\ lru' = lru @@ (Top.id :> value)
           /\ accum' = accum @@ (Top.id :> Top.tot)
           /\ visited' = VisitedRemove(visited, Top.id)
           /\ IF rest = <<>>
              THEN /\ stack' = rest
                   /\ pc' = "done"
                   /\ result' = value
                   /\ trace' = Append(trace, <<callee, value>>)
              ELSE LET parent == rest[Len(rest)]
                       qty    == get_materials(parent.id)[parent.idx][2]
                   IN  /\ stack' = [rest EXCEPT ![Len(rest)] =
                                       [parent EXCEPT !.idx = @ + 1,
                                                      !.tot = Accumulate(@, value, qty)]]
                       /\ UNCHANGED <<pc, result, trace>>
    /\ UNCHANGED <<err, callee, frozenVars, pipelineVars>>

-----------------------------------------------------------------------------
(* The resolver as a function: the outcome of safe_cost_to_build(type_id) in a *)
(* run whose `visited` set is vis and whose lru_cache is memo, with every      *)
(* price read from the market's answers.  [ok, val, memo]                      *)

RECURSIVE SafeCost(_, _, _), CostLoop(_, _, _, _, _)

SafeCost(type_id, vis, memo) ==
    IF type_id \in vis
    THEN [ok |-> TRUE, val |-> <<market[type_id], 0, 0, 0, 0>>, memo |-> memo]
    ELSE IF type_id \in DOMAIN memo
    THEN [ok |-> TRUE, val |-> memo[type_id], memo |-> memo]
    ELSE IF ~has_blueprint(type_id)
    THEN [ok |-> TRUE, val |-> BaseValue(<<>>, type_id),
          memo |-> memo @@ (type_id :> BaseValue(<<>>, type_id))]
    ELSE LET r == CostLoop(type_id, 1, ZeroVector, vis \cup {type_id}, memo)
             v == WithBlueprint(r.val, get_blueprint_cost(<<>>, type_id))
         IN  IF ~r.ok THEN r
             ELSE [ok |-> TRUE, val |-> v, memo |-> r.memo @@ (type_id :> v)]

CostLoop(type_id, k, tot, vis, memo) ==
    IF k > Len(get_materials(type_id))
    THEN [ok |-> TRUE, val |-> tot, memo |-> memo]
    ELSE LET mat_id == get_materials(type_id)[k][1]
             qty    == get_materials(type_id)[k][2]
         IN  IF GatheredHere(mat_id) /\ is_mineral(mat_id)
             THEN LET t == calculate_mining_time(mat_id, qty)
                  IN  IF t[1] # "ok"
                      THEN [ok |-> FALSE, val |-> tot, memo |-> memo]
                      ELSE CostLoop(type_id, k + 1, AddMining(tot, t[2]), vis, memo)
             ELSE IF GatheredHere(mat_id)
             THEN CostLoop(type_id, k + 1, AddPi(tot, pi_time(qty)), vis, memo)
             ELSE LET sub == SafeCost(mat_id, vis, memo)
                  IN  IF ~sub.ok THEN sub
                      ELSE CostLoop(type_id, k + 1, Accumulate(tot, sub.val, qty),
                                    vis, sub.memo)

\* a top-level call that is the first thing a run does
FirstCall(type_id) == SafeCost(type_id, {}, <<>>)

-----------------------------------------------------------------------------
(* analyze_profits *)

\* get_market_volume: the cached value, else whatever the history service
\* yields now (an average, or the sentinel when the request fails)
VolumeAnswers(type_id) ==
    IF type_id \in DOMAIN volumeCache THEN {volumeCache[type_id]} ELSE Volumes

\* line 418
VolumeTooLow_Never(v) == FALSE

VolumeTooLow(v) == v < MIN_DAILY_VOLUME

\* line 452; the quotient is kept as the integer part of ISK * 3600 / seconds
isk_per_hour_Unguarded(profit, total_hours) ==
    Divide(profit * SecondsPerHour, total_hours)

isk_per_hour(profit, total_hours) ==
    IF total_hours > 0 THEN Divide(profit * SecondsPerHour, total_hours) ELSE <<"ok", 0>>

\* lines 423-452, the row of one candidate
Row(type_id, vol, value, cache) ==
    LET build_cost   == value[1] * UNITS_TO_COMPARE
        mining_hours == value[2] * UNITS_TO_COMPARE
        pi_hours     == value[3] * UNITS_TO_COMPARE
        bp_cost      == value[4] * UNITS_TO_COMPARE
        sell_value   == get_price(cache, type_id) * UNITS_TO_COMPARE
        total_cost   == build_cost + bp_cost
        profit       == sell_value - total_cost
        base == [type_id |-> type_id, build_cost |-> build_cost,
                 blueprint_cost |-> bp_cost, blueprint_price |-> value[5],
                 total_cost |-> total_cost, sell_value |-> sell_value,
                 profit |-> profit, daily_volume |-> vol]
    IN  IF cfg.ENABLE_SELF_SUFFICIENT
        THEN base @@ [mining_hours |-> mining_hours, pi_hours |-> pi_hours,
                      total_hours |-> mining_hours + pi_hours,
                      isk_per_hour |-> isk_per_hour(profit, mining_hours + pi_hours)[2]]
        ELSE base

RowRaises(value, cache, type_id) ==
    /\ cfg.ENABLE_SELF_SUFFICIENT
    /\ isk_per_hour((get_price(cache, type_id) - value[1] - value[4]) * UNITS_TO_COMPARE,
                    (value[2] + value[3]) * UNITS_TO_COMPARE)[1] # "ok"

SortKey == IF cfg.ENABLE_SELF_SUFFICIENT THEN "isk_per_hour" ELSE "profit"

\* lines 464-467: the orders sort_values(..., ascending=False) may give
\* (the order of rows with equal keys is not fixed)
SortedDescending(rows) ==
    { s \in [1 .. Len(rows) -> {rows[k] : k \in 1 .. Len(rows)}] :
        /\ \A k \in 1 .. Len(rows) : \E j \in 1 .. Len(rows) : s[j] = rows[k]
        /\ \A j \in 1 .. Len(rows) - 1 : s[j][SortKey] >= s[j + 1][SortKey] }

\* lines 412-421: the volume check of one candidate and, if it passes, the
\* start of its top-level safe_cost_to_build
PipeIter ==
    /\ ppc = "loop"
    /\ idx <= Len(product_ids)
    /\ \E v \in VolumeAnswers(product_ids[idx]) :
        /\ volume' = v
        /\ volumeCache' = IF product_ids[idx] \in DOMAIN volumeCache THEN volumeCache
                          ELSE volumeCache @@ (product_ids[idx] :> v)
        /\ IF VolumeTooLow(v)
           THEN /\ idx' = idx + 1
                /\ UNCHANGED <<ppc, resolverVars>>
           ELSE LET e == SafeEntry(product_ids[idx]) IN
                /\ ppc' = "resolving"
                /\ idx' = idx
                /\ callee' = product_ids[idx]
                /\ priceCache' = e.prices
                /\ lru' = e.lru
                /\ visited' = e.visited
                /\ IF e.kind = "return"
                   THEN /\ pc' = "done"
                        /\ result' = e.value
                        /\ trace' = Append(trace, <<product_ids[idx], e.value>>)
                        /\ stack' = stack
                   ELSE /\ pc' = "running"
                        /\ stack' = <<Frame(product_ids[idx])>>
                        /\ UNCHANGED <<result, trace>>
                /\ UNCHANGED <<err, accum>>
    /\ UNCHANGED <<frozenVars, product_ids, results>>

\* lines 421-454: the candidate's cost vector is back
PipeRow ==
    /\ ppc = "resolving"
    /\ pc = "done"
    /\ priceCache' = IF result[5] = 0 THEN priceCache ELSE PriceCacheAfter(priceCache, callee)
    /\ IF result[5] = 0
       THEN /\ idx' = idx + 1
            /\ ppc' = "loop"
            /\ UNCHANGED <<results, err>>
       ELSE IF RowRaises(result, priceCache, callee)
       THEN /\ ppc' = "aborted"
            /\ err' = "analyze_profits"
            /\ UNCHANGED <<results, idx>>
       ELSE /\ results' = Append(results, Row(callee, volume, result, priceCache))
            /\ idx' = idx + 1
            /\ ppc' = "loop"
            /\ err' = err
    /\ UNCHANGED <<frozenVars, volumeCache, product_ids, volume,
                   visited, lru, stack, pc, callee, result, trace, accum>>

\* lines 456-469: the frame is built and sorted
PipeFinish ==
    /\ ppc = "loop"
    /\ idx > Len(product_ids)
    /\ results' \in SortedDescending(results)
    /\ ppc' = "finished"
    /\ UNCHANGED <<frozenVars, resolverVars, volumeCache, product_ids, idx, volume>>

-----------------------------------------------------------------------------
Init0 ==
    /\ db \in Catalogs
    /\ cfg \in Configs
    /\ market \in [PriceIds -> Prices]
    /\ priceCache = <<>>
    /\ volumeCache = <<>>
    /\ visited = {}
    /\ lru = <<>>
    /\ stack = <<>>
    /\ pc = "idle"
    /\ err = "none"
    /\ callee = 1
    /\ result = ZeroVector
    /\ trace = <<>>
    /\ accum = <<>>
    /\ idx = 1
    /\ volume = 0
    /\ results = <<>>

\* The resolver driven through its interface, any item in any order.
Init ==
    /\ Init0
    /\ product_ids = <<>>
    /\ ppc = "off"

Next ==
    \/ \E type_id \in Items : TopCall(type_id)
    \/ StepGather
    \/ StepRaise
    \/ StepCall
    \/ Return

Spec == Init /\ [][Next]_vars

\* get_all_products: the manufacturable items the filters let through, in the
\* order the query returns them
ProductLists ==
    { s \in UNION { [1 .. n -> {i \in Items : db.hasBp[i]}] : n \in 0 .. Cardinality(Items) } :
        \A j, k \in DOMAIN s : j # k => s[j] # s[k] }

\* One run of analyze_profits.
PipelineInit ==
    /\ Init0
    /\ product_ids \in ProductLists
    /\ ppc = "loop"

PipelineNext ==
    \/ PipeIter
    \/ StepGather
    \/ StepRaise
    \/ StepCall
    \/ Return
    \/ PipeRow
    \/ PipeFinish

PipelineSpec == PipelineInit /\ [][PipelineNext]_vars

-----------------------------------------------------------------------------
(* Properties *)

TopIds == {trace[k][1] : k \in DOMAIN trace}
NonNegative(v) == \A k \in 1 .. 5 : v[k] >= 0
OnCycle(type_id) ==
    \E m \in Items : /\ has_blueprint(type_id) /\ has_blueprint(m)
                     /\ \E a \in DOMAIN get_materials(type_id) : get_materials(type_id)[a][1] = m
                     /\ \E b \in DOMAIN get_materials(m) : get_materials(m)[b][1] = type_id

\* C1 -- cycle safety: a top-level call for an item that lies on a cycle of the
\* recipe graph never ends in an exception (it ends by returning), and the
\* vector it returns has five non-negative fields.
C1_CycleSafety ==
    OnCycle(callee) =>
        /\ pc # "raised"
        /\ pc = "done" => NonNegative(result)

\* C2 -- base case: every top-level call for an item that has no blueprint and is
\* not a free resource (self-sufficiency off, or neither mineral nor PI)
\* returned <<price(item), 0, 0, 0, 0>>.
C2_BaseCase ==
    \A k \in DOMAIN trace :
        LET type_id == trace[k][1] IN
        (~has_blueprint(type_id) /\ ~GatheredHere(type_id)) =>
            /\ type_id \in DOMAIN priceCache
            /\ priceCache[type_id] = market[type_id]
            /\ trace[k][2] = <<priceCache[type_id], 0, 0, 0, 0>>

C2_Witness ==
    /\ pc = "done"
    /\ ~has_blueprint(callee) /\ is_mineral(callee) /\ ~cfg.ENABLE_SELF_SUFFICIENT
    /\ result = <<100, 0, 0, 0, 0>>

\* C3 -- yield normalization: when a top-level call for a manufacturable item
\* whose blueprint yields Q > 1 units per run returns, the money cost returned
\* is the cost accumulated over the materials divided by Q.
C3_YieldNormalization ==
    (pc = "done" /\ has_blueprint(callee) /\ OutputQuantity(callee) > 1
                 /\ callee \in DOMAIN accum) =>
        result[1] * OutputQuantity(callee) = accum[callee][1]

\* C4 -- determinism: any two top-level calls for the same manufacturable item
\* in one run returned the same vector, whatever was resolved between them.
C4_Deterministic ==
    \A j, k \in DOMAIN trace :
        (trace[j][1] = trace[k][1] /\ has_blueprint(trace[j][1])) => trace[j][2] = trace[k][2]

C4_Witness ==
    \E j, m, k \in DOMAIN trace :
        /\ j < m /\ m < k
        /\ trace[j][1] = trace[k][1] /\ trace[m][1] # trace[j][1]
        /\ has_blueprint(trace[j][1]) /\ has_blueprint(trace[m][1])
        /\ OnCycle(trace[j][1])
        /\ trace[k][2][1] > 0 /\ trace[k][2][5] > 0

\* C5 -- amortization: what an item's own blueprint adds to blueprint_cost is
\* P / BLUEPRINT_RUNS when INCLUDE_BLUEPRINT_COST is set and BLUEPRINT_RUNS > 0,
\* and 0 otherwise; in both cases it adds the full price P to full_bp_price.
C5_Amortization ==
    \A type_id \in DOMAIN accum :
        get_blueprint_type_id(type_id) # NoBlueprint =>
            LET bp == get_blueprint_type_id(type_id) IN
            /\ type_id \in DOMAIN lru /\ bp \in DOMAIN priceCache
            /\ lru[type_id][4] - accum[type_id][4] =
                   IF cfg.INCLUDE_BLUEPRINT_COST /\ cfg.BLUEPRINT_RUNS > 0
                   THEN priceCache[bp] \div cfg.BLUEPRINT_RUNS ELSE 0
            /\ lru[type_id][5] - accum[type_id][5] = priceCache[bp]

C5_Witness ==
    \E type_id \in DOMAIN accum :
        /\ get_blueprint_type_id(type_id) # NoBlueprint
        /\ market[get_blueprint_type_id(type_id)] = 100
        /\ cfg.INCLUDE_BLUEPRINT_COST /\ cfg.BLUEPRINT_RUNS = 10
        /\ lru[type_id][4] - accum[type_id][4] = 10
        /\ lru[type_id][5] - accum[type_id][5] = 100

\* C6 -- self-sufficiency: in self-sufficient mode a mineral material with
\* quantity q adds calculate_mining_time(material, q) to the mining hours of
\* the item being built, nothing to its money cost, and is not resolved (no
\* frame, no cache entry, no price is fetched); and for X = 2 Y + 1 Z with Y a
\* mineral of 10 time units per unit and Z without blueprint at price 100 the
\* call for X returns <<100, 20, 0, amortized blueprint term, blueprint price>>.
MineralNext ==
    /\ InLoop
    /\ cfg.ENABLE_SELF_SUFFICIENT
    /\ is_mineral(TopMaterial[1])
    /\ calculate_mining_time(TopMaterial[1], TopMaterial[2])[1] = "ok"

ScenarioX ==
    (/\ db = CatGather(2) /\ cfg.ENABLE_SELF_SUFFICIENT /\ market[3] = 100
     /\ pc = "done" /\ callee = 1) =>
        result = <<100, 20, 0,
                   IF cfg.INCLUDE_BLUEPRINT_COST /\ cfg.BLUEPRINT_RUNS > 0
                   THEN market[11] \div cfg.BLUEPRINT_RUNS ELSE 0,
                   market[11]>>

C6_SelfSufficiency ==
    [][ /\ MineralNext =>
            /\ Len(stack') = Len(stack)
            /\ stack'[Len(stack)].id = Top.id
            /\ stack'[Len(stack)].idx = Top.idx + 1
            /\ stack'[Len(stack)].tot =
                  [Top.tot EXCEPT ![2] = @ +
                      calculate_mining_time(TopMaterial[1], TopMaterial[2])[2]]
            /\ UNCHANGED <<lru, priceCache, visited>>
        /\ ScenarioX' ]_vars

C6_Witness ==
    /\ db = CatGather(2) /\ cfg.ENABLE_SELF_SUFFICIENT /\ market[3] = 100
    /\ market[11] = 100 /\ cfg.INCLUDE_BLUEPRINT_COST /\ cfg.BLUEPRINT_RUNS = 10
    /\ pc = "done" /\ callee = 1
    /\ result = <<100, 20, 0, 10, 100>>

\* C7 -- filter: a candidate whose daily volume is below MIN_DAILY_VOLUME has no
\* row in the results and was never resolved as a top-level candidate.
C7_VolumeFilter ==
    \A type_id \in DOMAIN volumeCache :
        volumeCache[type_id] < MIN_DAILY_VOLUME =>
            /\ \A k \in DOMAIN results : results[k].type_id # type_id
            /\ type_id \notin TopIds
            /\ ~(ppc = "resolving" /\ callee = type_id)

C7_Witness ==
    /\ ppc = "finished"
    /\ Len(results) = 1
    /\ \E type_id \in DOMAIN volumeCache :
          /\ volumeCache[type_id] = 4
          /\ results[1].type_id # type_id

\* C8 -- divide-by-zero guard: a row that carries the hour columns has
\* isk_per_hour = 0 when total_hours = 0 and profit / total_hours when
\* total_hours > 0, and computing a row never raises.
C8_DivideGuard ==
    /\ err # "analyze_profits"
    /\ \A k \in DOMAIN results :
          "total_hours" \in DOMAIN results[k] =>
              /\ results[k].total_hours = results[k].mining_hours + results[k].pi_hours
              /\ results[k].total_hours = 0 => results[k].isk_per_hour = 0
              /\ results[k].total_hours > 0 =>
                    results[k].isk_per_hour =
                        (results[k].profit * SecondsPerHour) \div results[k].total_hours

C8_Witness ==
    \E k \in DOMAIN results :
        /\ "total_hours" \in DOMAIN results[k]
        /\ results[k].total_hours = 0 /\ results[k].profit # 0
        /\ results[k].isk_per_hour = 0

\* C9 -- in-progress set: `visited` holds exactly the items of the active
\* _cost_to_build frames; in particular it is empty whenever no top-level call
\* is running, whether the last one returned or raised.
C9_VisitedIsCallStack ==
    visited = {stack[k].id : k \in DOMAIN stack}

\* C10 -- order independence: the vector a top-level call returns is the one
\* the same call returns when it is the first call of a run with the same
\* prices.
C10_OrderIndependent ==
    (pc = "done" /\ ppc = "off") =>
        /\ FirstCall(callee).ok
        /\ result = FirstCall(callee).val

====
